---- MODULE Spec2Model ----
(***************************************************************************)
(* SignalRClient (python-example/signalr.py): negotiate, websocket connect, *)
(* subscribe, exponential back-off, frame demultiplexing, startup cutoff    *)
(* filter and close().  One supervisory task drives _ensure_connection()    *)
(* and messages(); other tasks may call close().  Every action is the      *)
(* code between two suspension points (awaits) of a coroutine.              *)
(***************************************************************************)
EXTENDS Integers, Sequences, FiniteSets, TLC

\* ---------------------------------------------------------------- bounds
MaxHandles == 2      \* websocket handles the transport hands out
MaxTick    == 1      \* seconds the wall clock advances after construction
MaxItems   == 2      \* entries of one "Messages" value
MaxHubs    == 2      \* hub entries of one incremental frame

\* ------------------------------------------------------ program constants
CUTOFF_SEC      == 30   \* dt.timedelta(seconds=30)
FAST_RETRY_SEC  == 5    \* const.FAST_RETRY_SEC  (D0)
MAX_RETRY_SEC   == 60   \* const.MAX_RETRY_SEC   (Dmax)
BACK_OFF_FACTOR == 2    \* const.BACK_OFF_FACTOR (F)

NoHandle == 0           \* self._ws = None
NoCutoff == -1          \* self._startup_cutoff = None
NoDelay  == 0           \* the local `delay` outside _ensure_connection

StartClock == CUTOFF_SEC          \* utcnow() at construction (origin is free)
Clock      == StartClock .. (StartClock + MaxTick)
Handles    == 1 .. MaxHandles

Min(a, b) == IF a < b THEN a ELSE b

VARIABLES
    pc,        \* position of the supervisory task
    delay,     \* local `delay` of _ensure_connection
    token,     \* local `token` of connect()
    connH,     \* handle returned by ws_connect in the running connect()
    ws,        \* self._ws
    t0,        \* self._t0
    cutoff,    \* self._startup_cutoff
    hState,    \* per handle: "none" | "open" | "closed"
    hSubs,     \* per handle: number of send_json(SUBSCRIBE_MSG) calls
    epochH,    \* handle opened by the connect() that recorded t0 and cutoff
    cur,       \* handle messages() iterates (async for msg in self._ws)
    pending,   \* items of the current frame not yet handed to _handle_rc
    endOp,     \* how the current frame's iteration ends
    lastKind,  \* kind of the frame read last
    frame,     \* what the frame just received holds, until its first item
    afterBad,  \* a malformed frame was read earlier on this connection
    last,      \* the latest _handle_rc call
    lastSlept, \* last delay slept since the last successful connect
    lastExc,   \* the exception connect() raised last
    grew,      \* delay had grown past the floor before the last success
    cpc,       \* number of close() calls suspended at their await
    released,  \* the handles whose close() was called by close()
    closeSeen  \* close() was called since messages() took its handle

vars == <<pc, delay, token, connH, ws, t0, cutoff, hState, hSubs, epochH,
          cur, pending, endOp, lastKind, frame, afterBad,
          last, lastSlept, lastExc, grew, cpc, released, closeSeen>>

supVars   == <<pc, delay, token, connH, lastSlept, lastExc, grew>>
epochVars == <<t0, cutoff, epochH>>
hVars     == <<hState, hSubs>>
frameVars == <<cur, pending, endOp, lastKind, frame, afterBad, last>>
closeVars == <<cpc, released, closeSeen>>

\* ------------------------------------------------------------ raw items
\* A raw item is what the external transform and the record's "utc" string
\* make of it: tr is clean_rc's result (a record, nothing, an exception),
\* fmt the form of clean["utc"], ts the instant it denotes.
ItemTimes == 0 .. (MaxTick + 1)
EmptyItem == [tr |-> "empty", fmt |-> "none", ts |-> 0]
Items ==
    {EmptyItem, [tr |-> "raise", fmt |-> "none", ts |-> 0]}
    \cup {[tr |-> "rec", fmt |-> f, ts |-> 0] : f \in {"bad", "nokey"}}
    \cup {[tr |-> "rec", fmt |-> f, ts |-> t] : f \in {"naive", "zulu"}, t \in ItemTimes}

\* dt.datetime.fromisoformat(clean["utc"].replace("Z", "+00:00")): a string
\* without zone gives a naive datetime, one ending in Z (or an offset) an
\* aware one, anything else raises ValueError.
ParseUtc(it) ==
    [ok    |-> it.fmt \in {"naive", "zulu"},
     aware |-> it.fmt = "zulu",
     t     |-> it.ts]

\* rc_time < self._startup_cutoff
IsStale_Shifted(t, c) == t + 1 < c
IsStale(t, c) == t < c

\* the truth test `if self._startup_cutoff:` (a datetime is always true)
HasCutoff(c) == c # NoCutoff

\* _handle_rc up to the call of machine.apply: what becomes of the item.
\* The cutoff is naive (utcnow), so comparing an aware rc_time raises
\* TypeError; every exception is swallowed by `except Exception`.
Outcome(it, c, machine) ==
    IF it.tr = "raise" THEN "transform_error"
    ELSE IF it.tr = "empty" THEN "empty"
    ELSE IF HasCutoff(c) /\ it.fmt = "nokey" THEN "key_error"
    ELSE IF HasCutoff(c) /\ ~ParseUtc(it).ok THEN "value_error"
    ELSE IF HasCutoff(c) /\ ParseUtc(it).aware THEN "type_error"
    ELSE IF HasCutoff(c) /\ IsStale(ParseUtc(it).t, c) THEN "stale"
    ELSE IF ~machine THEN "no_machine"
    ELSE "apply"

\* the comparison of line 142 was evaluated (it may have raised)
Compared(it, c) == HasCutoff(c) /\ it.tr = "rec" /\ ParseUtc(it).ok /\ it.fmt # "nokey"

NoCall == [it |-> EmptyItem, id |-> 0, h |-> NoHandle, cut |-> NoCutoff,
           cmp |-> FALSE, out |-> "none", applied |-> 0, res |-> "none"]

\* --------------------------------------------------------------- frames
\* "Messages": a list, a mapping (values() in document order), another
\* type, or absent (KeyError).
NoMsgs  == [rep |-> "list", n |-> 0]
MsgsSet == {[rep |-> r, n |-> k] : r \in {"list", "dict"}, k \in 0 .. MaxItems}
           \cup {[rep |-> r, n |-> 0] : r \in {"other", "missing"}}
\* a hub entry: rel = (method is "feed" and first argument is the topic)
HubSet  == {[rel |-> TRUE, msgs |-> m] : m \in MsgsSet}
           \cup {[rel |-> FALSE, msgs |-> NoMsgs]}
HubSeqs == UNION {[1 .. n -> HubSet] : n \in 0 .. MaxHubs}

\* parsed frame bodies: malformed text, a JSON scalar (number, null), a JSON
\* value with neither "M" nor "R", an incremental frame, a snapshot frame
Payloads ==
    {[k |-> x, hubs |-> <<>>, topic |-> FALSE, msgs |-> NoMsgs] :
        x \in {"malformed", "scalar", "other"}}
    \cup {[k |-> "M", hubs |-> hs, topic |-> FALSE, msgs |-> NoMsgs] : hs \in HubSeqs}
    \cup {[k |-> "R", hubs |-> <<>>, topic |-> TRUE, msgs |-> m] : m \in MsgsSet}
    \cup {[k |-> "R", hubs |-> <<>>, topic |-> FALSE, msgs |-> NoMsgs]}

WsMsgs ==
    {[type |-> "TEXT", body |-> p] : p \in Payloads}
    \cup {[type |-> t, body |-> [k |-> "other", hubs |-> <<>>, topic |-> FALSE, msgs |-> NoMsgs]] :
            t \in {"BINARY", "ERROR", "CLOSED"}}

\* for hub_msg in payload["M"]: ... (lines 97-111)
RECURSIVE ExtractHubs_Break(_, _)
ExtractHubs_Break(hubs, i) ==
    IF i > Len(hubs) THEN [n |-> 0, end |-> "yield"]
    ELSE IF ~hubs[i].rel THEN ExtractHubs_Break(hubs, i + 1)
    ELSE IF hubs[i].msgs.rep = "missing" THEN [n |-> 0, end |-> "raise"]
    ELSE IF hubs[i].msgs.rep = "other" THEN [n |-> 0, end |-> "yield"]
    ELSE LET rest == ExtractHubs_Break(hubs, i + 1)
         IN  [n |-> hubs[i].msgs.n + rest.n, end |-> rest.end]

RECURSIVE ExtractHubs(_, _)
ExtractHubs(hubs, i) ==
    IF i > Len(hubs) THEN [n |-> 0, end |-> "yield"]
    ELSE IF ~hubs[i].rel THEN ExtractHubs(hubs, i + 1)
    ELSE IF hubs[i].msgs.rep = "missing" THEN [n |-> 0, end |-> "raise"]
    ELSE IF hubs[i].msgs.rep = "other" THEN ExtractHubs(hubs, i + 1)
    ELSE LET rest == ExtractHubs(hubs, i + 1)
         IN  [n |-> hubs[i].msgs.n + rest.n, end |-> rest.end]

\* elif "R" in payload and "RaceControlMessages" in payload["R"] (lines 112-122)
ExtractSnapshot(p) ==
    IF ~p.topic THEN [n |-> 0, end |-> "yield"]
    ELSE IF p.msgs.rep = "missing" THEN [n |-> 0, end |-> "raise"]
    ELSE IF p.msgs.rep = "other" THEN [n |-> 0, end |-> "skip"]
    ELSE [n |-> p.msgs.n, end |-> "yield"]

\* the body of the loop for one parsed payload: the number of items handed
\* to _handle_rc, in extraction order, and how the iteration ends (yield
\* payload, continue without yielding, or an exception leaving messages())
Extract(p) ==
    CASE p.k = "scalar" -> [n |-> 0, end |-> "raise"]
      [] p.k = "M"      -> ExtractHubs(p.hubs, 1)
      [] p.k = "R"      -> ExtractSnapshot(p)
      [] OTHER          -> [n |-> 0, end |-> "yield"]

\* What a payload holds, read off the payload itself: a "Messages" value of
\* another type in a relevant entry (unk), a relevant entry without
\* argument list or "Messages", or a JSON scalar (bad), and the number of
\* entries of its list- and mapping-shaped "Messages" values (listed).
RelevantMsgs(p) ==
    IF p.k = "M" THEN {p.hubs[i].msgs : i \in {j \in 1 .. Len(p.hubs) : p.hubs[j].rel}}
    ELSE IF p.k = "R" /\ p.topic THEN {p.msgs}
    ELSE {}

RECURSIVE ListedHubs(_, _)
ListedHubs(hubs, i) ==
    IF i > Len(hubs) THEN 0
    ELSE (IF hubs[i].rel /\ hubs[i].msgs.rep \in {"list", "dict"}
          THEN hubs[i].msgs.n ELSE 0) + ListedHubs(hubs, i + 1)

Holds(p) ==
    [unk    |-> \E m \in RelevantMsgs(p) : m.rep = "other",
     bad    |-> p.k = "scalar" \/ \E m \in RelevantMsgs(p) : m.rep = "missing",
     listed |-> IF p.k = "M" THEN ListedHubs(p.hubs, 1)
                ELSE IF p.k = "R" /\ p.topic /\ p.msgs.rep \in {"list", "dict"}
                THEN p.msgs.n ELSE 0]

NoFrame == [unk |-> FALSE, bad |-> FALSE, listed |-> 0]

\* the items of a frame, named by their position in extraction order
Positions_Reversed(n) == [p \in 1 .. n |-> n + 1 - p]
Positions(n) == [p \in 1 .. n |-> p]

\* except Exception as exc (lines 151-154): log, and _handle_rc returns
OnItemError_Raise == "raised"
OnItemError == "items"

ItemErrors == {"transform_error", "key_error", "value_error", "type_error"}
ApplyErrors == {"apply_error", "publish_error"}

\* except json.JSONDecodeError: continue
OnDecodeError_Raise == "raised"
OnDecodeError == "recv"

\* --------------------------------------------------------- back-off
\* delay = FAST_RETRY_SEC
InitialDelay_Ceiling == MAX_RETRY_SEC
InitialDelay == FAST_RETRY_SEC

\* delay = min(delay * BACK_OFF_FACTOR, MAX_RETRY_SEC)
NextDelay_Uncapped(d) == d * BACK_OFF_FACTOR
NextDelay(d) == Min(d * BACK_OFF_FACTOR, MAX_RETRY_SEC)

\* except Exception: every error of negotiate, ws_connect and send_json
Caught_OnlyNegotiate(exc) == exc = "http"
Caught(exc) == exc \in {"http", "transport", "send"}

\* self._startup_cutoff = self._t0 - dt.timedelta(seconds=30)
StartupCutoff_Once(t, old) == IF old = NoCutoff THEN t - CUTOFF_SEC ELSE old
StartupCutoff(t, old) == t - CUTOFF_SEC

NextHandle == 1 + Cardinality({h \in Handles : hState[h] # "none"})

\* ------------------------------------------------------------ __init__
Init ==
    /\ pc = "start"
    /\ delay = NoDelay
    /\ token = "none"
    /\ connH = NoHandle
    /\ ws = NoHandle
    /\ t0 = StartClock
    /\ cutoff = NoCutoff
    /\ epochH = NoHandle
    /\ hState = [h \in Handles |-> "none"]
    /\ hSubs = [h \in Handles |-> 0]
    /\ cur = NoHandle
    /\ pending = <<>>
    /\ endOp = "yield"
    /\ lastKind = "none"
    /\ frame = NoFrame
    /\ afterBad = FALSE
    /\ last = NoCall
    /\ lastSlept = NoDelay
    /\ lastExc = "none"
    /\ grew = FALSE
    /\ cpc = 0
    /\ released = {}
    /\ closeSeen = FALSE

\* Cooperative scheduling: the awaits at which the supervisory task is
\* suspended.  Another task (close(), cancellation) runs only while the
\* supervisory task is suspended, has not started, or is over.
SuspensionPoints == {"negotiate", "ws_connect", "send", "sleep", "recv", "apply"}
Parked == pc \in SuspensionPoints \cup {"start", "cancelled", "raised"}

\* dt.datetime.utcnow(): a reading not before the one stored in self._t0
UtcNow == {t \in Clock : t >= t0}

\* The supervisory loop: it calls _ensure_connection() at start-up and
\* again, at once, whenever messages() has ended.
SupervisorCalls == pc \in {"start", "ended"}

\* _ensure_connection(), lines 72-75: delay = FAST_RETRY_SEC, then the first
\* connect() with no sleep before it
FirstStep_SleepFirst == "sleep"
FirstStep == "negotiate"

EnsureConnection ==
    /\ SupervisorCalls
    /\ delay' = InitialDelay
    /\ pc' = FirstStep
    /\ closeSeen' = FALSE
    /\ UNCHANGED <<token, connH, lastSlept, lastExc, grew, ws, epochVars,
                   hVars, frameVars, cpc, released>>

\* except Exception as err (lines 77-81): log, then await asyncio.sleep(delay)
ConnectRaises(exc) ==
    /\ lastExc' = exc
    /\ pc' = IF Caught(exc) THEN "sleep" ELSE "raised"
    /\ token' = "none"
    /\ connH' = NoHandle

\* connect(), lines 37-43: the negotiation request.  raise_for_status() or
\* the request itself may raise; data.get("ConnectionToken") is None when
\* the body has no token, and connect() goes on to ws_connect.
Negotiate ==
    /\ pc = "negotiate"
    /\ \E out \in {"error", "token", "no_token"} :
         IF out = "error"
         THEN ConnectRaises("http")
         ELSE /\ token' = IF out = "token" THEN "T1" ELSE "absent"
              /\ pc' = "ws_connect"
              /\ UNCHANGED <<lastExc, connH>>
    /\ UNCHANGED <<delay, lastSlept, grew, ws, epochVars, hVars,
                   frameVars, closeVars>>

\* await self._ws.send_json(SUBSCRIBE_MSG), line 61: one more subscribe
\* frame on the handle
Subscribed_Twice(n) == n + 2
Subscribed(n) == n + 1

\* connect(), lines 45-61: ws_connect returned; self._ws is assigned and
\* send_json(SUBSCRIBE_MSG) is called on it, with no suspension in between
WsConnectOk ==
    /\ pc = "ws_connect"
    /\ NextHandle \in Handles
    /\ LET h == NextHandle IN
         /\ ws' = h
         /\ connH' = h
         /\ hState' = [hState EXCEPT ![h] = "open"]
         /\ hSubs' = [hSubs EXCEPT ![h] = Subscribed(@)]
    /\ pc' = "send"
    /\ UNCHANGED <<delay, token, lastSlept, lastExc, grew, epochVars,
                   frameVars, closeVars>>

\* ws_connect raised
WsConnectFail ==
    /\ pc = "ws_connect"
    /\ ConnectRaises("transport")
    /\ UNCHANGED <<delay, lastSlept, grew, ws, epochVars, hVars, frameVars,
                   closeVars>>

\* connect(), lines 61-65, and the return of _ensure_connection (line 76).
\* Whether a send on a handle that close() has closed meanwhile raises is
\* the transport's affair: both outcomes are allowed.
SendOk ==
    /\ pc = "send"
    /\ \E now \in UtcNow :
         /\ t0' = now
         /\ cutoff' = StartupCutoff(now, cutoff)
    /\ epochH' = connH
    /\ grew' = (lastSlept > FAST_RETRY_SEC)
    /\ lastSlept' = NoDelay
    /\ delay' = NoDelay
    /\ token' = "none"
    /\ connH' = NoHandle
    /\ pc' = "connected"
    /\ UNCHANGED <<lastExc, ws, hVars, frameVars, closeVars>>

\* send_json raised: self._ws keeps the new handle, the epoch is not renewed
SendFail ==
    /\ pc = "send"
    /\ ConnectRaises("send")
    /\ UNCHANGED <<delay, lastSlept, grew, ws, epochVars, hVars, frameVars,
                   closeVars>>

\* asyncio.sleep(delay) returned; delay = min(delay * F, MAX) (line 82);
\* the loop goes round to the next connect()
Backoff ==
    /\ pc = "sleep"
    /\ lastSlept' = delay
    /\ delay' = NextDelay(delay)
    /\ lastExc' = "none"
    /\ pc' = "negotiate"
    /\ UNCHANGED <<token, connH, grew, ws, epochVars, hVars, frameVars,
                   closeVars>>

\* messages(), lines 85-88: return without a handle, else iterate self._ws
MessagesStart ==
    /\ pc = "connected"
    /\ IF ws = NoHandle
       THEN /\ pc' = "ended"
            /\ UNCHANGED cur
       ELSE /\ pc' = "recv"
            /\ cur' = ws
    /\ afterBad' = FALSE
    /\ lastKind' = "none"
    /\ closeSeen' = FALSE
    /\ UNCHANGED <<delay, token, connH, lastSlept, lastExc, grew, ws, epochVars,
                   hVars, pending, endOp, frame, last, cpc, released>>

\* async for msg in self._ws, lines 88-93 and 126-127: one message is
\* received.  A closed handle ends the iteration; CLOSED and ERROR leave
\* the loop (the transport has closed the handle by then); a message that
\* is not TEXT is passed over; malformed text is skipped; a parsed payload
\* is taken apart (lines 96-122).
Recv ==
    /\ pc = "recv"
    /\ IF hState[cur] = "closed"
       THEN /\ pc' = "ended"
            /\ lastKind' = "end"
            /\ UNCHANGED <<hState, pending, endOp, frame, afterBad>>
       ELSE \E m \in WsMsgs :
              /\ lastKind' = IF m.type = "TEXT" THEN m.body.k ELSE m.type
              /\ CASE m.type \in {"CLOSED", "ERROR"} ->
                        /\ pc' = "ended"
                        /\ hState' = [hState EXCEPT ![cur] = "closed"]
                        /\ UNCHANGED <<pending, endOp, frame, afterBad>>
                   [] m.type = "BINARY" ->
                        /\ pc' = "recv"
                        /\ UNCHANGED <<hState, pending, endOp, frame, afterBad>>
                   [] m.type = "TEXT" /\ m.body.k = "malformed" ->
                        /\ pc' = OnDecodeError
                        /\ afterBad' = TRUE
                        /\ UNCHANGED <<hState, pending, endOp, frame>>
                   [] OTHER ->
                        /\ pending' = Positions(Extract(m.body).n)
                        /\ endOp' = Extract(m.body).end
                        /\ frame' = Holds(m.body)
                        /\ pc' = "items"
                        /\ UNCHANGED <<hState, afterBad>>
    /\ UNCHANGED <<delay, token, connH, lastSlept, lastExc, grew, ws, epochVars,
                   hSubs, cur, last, closeVars>>

\* _handle_rc(msg) up to `await machine.apply(clean)`, lines 134-148
HandleRc ==
    /\ pc = "items"
    /\ pending # <<>>
    /\ \E it \in Items, machine \in BOOLEAN :
         LET out == Outcome(it, cutoff, machine) IN
           /\ last' = [it |-> it, id |-> Head(pending), h |-> cur, cut |-> cutoff,
                       cmp |-> Compared(it, cutoff), out |-> out,
                       applied |-> IF out = "apply" THEN 1 ELSE 0, res |-> "none"]
           /\ IF out = "apply"
              THEN pc' = "apply" /\ UNCHANGED pending
              ELSE /\ pc' = IF out \in ItemErrors THEN OnItemError ELSE "items"
                   /\ pending' = Tail(pending)
    /\ frame' = NoFrame
    /\ UNCHANGED <<delay, token, connH, lastSlept, lastExc, grew, ws, epochVars,
                   hVars, cur, endOp, lastKind, afterBad, closeVars>>

\* machine.apply returned or raised; publish when changed is not None
\* (it may raise too); `except Exception` swallows either; lines 148-154
ApplyReturns ==
    /\ pc = "apply"
    /\ \E res \in {"unchanged", "published"} \cup ApplyErrors :
         /\ last' = [last EXCEPT !.res = res, !.it = EmptyItem]
         /\ pc' = IF res \in ApplyErrors THEN OnItemError ELSE "items"
    /\ pending' = Tail(pending)
    /\ UNCHANGED <<delay, token, connH, lastSlept, lastExc, grew, ws, epochVars,
                   hVars, cur, endOp, lastKind, frame, afterBad, closeVars>>

\* all items of the frame are handled: yield payload (lines 124-125),
\* `continue` (line 120), or the exception leaves messages()
FrameEnd ==
    /\ pc = "items"
    /\ pending = <<>>
    /\ pc' = IF endOp = "raise" THEN "raised" ELSE "recv"
    /\ endOp' = "yield"
    /\ last' = NoCall
    /\ frame' = NoFrame
    /\ UNCHANGED <<delay, token, connH, lastSlept, lastExc, grew, ws, epochVars,
                   hVars, cur, pending, lastKind, afterBad, closeVars>>

\* close(), lines 130-131: with a handle, self._ws.close() is called; a
\* handle that is closed already returns at once, and then line 132 runs
CloseCall ==
    /\ Parked
    /\ closeSeen' = (closeSeen \/ pc \in {"recv", "apply"})
    /\ IF ws = NoHandle
       THEN UNCHANGED <<ws, hState, cpc, released>>
       ELSE /\ released' = released \cup {ws}
            /\ IF hState[ws] = "closed"
               THEN ws' = NoHandle /\ UNCHANGED <<hState, cpc>>
               ELSE /\ hState' = [hState EXCEPT ![ws] = "closed"]
                    /\ cpc' = cpc + 1
                    /\ UNCHANGED ws
    /\ UNCHANGED <<supVars, epochVars, hSubs, frameVars>>

\* close(), line 132, after the await
CloseReturns ==
    /\ Parked
    /\ cpc > 0
    /\ ws' = NoHandle
    /\ cpc' = cpc - 1
    /\ UNCHANGED <<supVars, epochVars, hVars, frameVars, released, closeSeen>>

\* external cancellation reaches the supervisory task at an await
Cancel ==
    /\ pc \in SuspensionPoints
    /\ pc' = "cancelled"
    /\ UNCHANGED <<delay, token, connH, lastSlept, lastExc, grew, ws, epochVars,
                   hVars, frameVars, closeVars>>

Next ==
    \/ EnsureConnection
    \/ Negotiate
    \/ WsConnectOk
    \/ WsConnectFail
    \/ SendOk
    \/ SendFail
    \/ Backoff
    \/ MessagesStart
    \/ Recv
    \/ HandleRc
    \/ ApplyReturns
    \/ FrameEnd
    \/ CloseCall
    \/ CloseReturns
    \/ Cancel

Spec == Init /\ [][Next]_vars

\* The supervisory task is scheduled whenever it can run: once messages()
\* has ended, the loop calls _ensure_connection() again.
LiveSpec == Spec /\ WF_vars(EnsureConnection)

\* ------------------------------------------------------------- claims
Streaming == pc \in {"recv", "items", "apply"}

\* C1: whenever _handle_rc compares an item read from handle h with
\* _startup_cutoff, that cutoff is t0 - 30 s of the connect() call that
\* opened h and completed, whatever connects, failed connects (the
\* subscribe send included), stream ends and reconnects came before.
C1_CutoffOfOwnEpoch ==
    last.cmp => /\ last.h = epochH
                /\ last.h = cur
                /\ last.cut = t0 - CUTOFF_SEC

\* a comparison on the second handle, in an epoch later than the first
C1_Witness == last.cmp /\ last.h > 1 /\ t0 > StartClock /\ last.cut = t0 - CUTOFF_SEC

\* C2: a record whose timestamp is strictly before t0 - 30 s of the current
\* epoch is never passed to apply()
HasTime(it) == it.tr = "rec" /\ it.fmt \in {"naive", "zulu"}

C2_StaleNeverApplied ==
    (last.out # "none" /\ HasTime(last.it) /\ last.it.ts < t0 - CUTOFF_SEC)
        => last.applied = 0

\* a record one second before the cutoff was dropped as stale
C2_Witness == last.out = "stale" /\ last.it.ts + 1 = t0 - CUTOFF_SEC /\ last.applied = 0

\* C3: a non-empty record whose timestamp is at or after t0 - 30 s of the
\* current epoch is passed to apply() exactly once (a consumer being
\* registered)
C3_FreshApplied ==
    (HasTime(last.it) /\ last.it.ts >= t0 - CUTOFF_SEC /\ last.out # "no_machine")
        => last.applied = 1

\* C4: the delays slept by consecutive failed attempts never decrease and
\* none, the first included, exceeds MAX_RETRY_SEC
C4_DelaysBounded ==
    pc = "sleep" => /\ delay <= MAX_RETRY_SEC
                    /\ delay >= lastSlept
                    /\ delay >= FAST_RETRY_SEC

\* the delay has reached the ceiling and is slept again
C4_Witness == pc = "sleep" /\ delay = MAX_RETRY_SEC /\ lastSlept = MAX_RETRY_SEC

\* C5: the first failed attempt after a successful connect sleeps
\* FAST_RETRY_SEC, however far the delay had grown before that success
C5_DelayRestarts ==
    (pc = "sleep" /\ epochH # NoHandle /\ lastSlept = NoDelay)
        => delay = FAST_RETRY_SEC

\* the first failure after a success that itself followed a grown delay
C5_Witness ==
    pc = "sleep" /\ epochH # NoHandle /\ lastSlept = NoDelay /\ grew
    /\ delay = FAST_RETRY_SEC

\* C6: every exception of connect() leads to one back-off sleep and then
\* another connect(); _ensure_connection returns only after a connect() that
\* completed, and leaves otherwise only by cancellation
InEnsure(p) == p \in {"negotiate", "ws_connect", "send", "sleep"}

C6_NoFailureIsFatal ==
    [][/\ (lastExc' # lastExc /\ lastExc' # "none") => pc' = "sleep"
       /\ (pc = "sleep" /\ pc' # pc) => pc' \in {"negotiate", "cancelled"}
       /\ (InEnsure(pc) /\ ~InEnsure(pc')) => pc' \in {"connected", "cancelled"}
       /\ (pc' = "connected" /\ pc # "connected")
             => (pc = "send" /\ epochH' = connH /\ hSubs[connH] = 1)]_vars

\* _ensure_connection returned after failures of the subscribe send
C6_Witness == pc = "connected" /\ lastExc = "none" /\ grew /\ hState[1] # "none" /\ epochH = 2

\* C7: when messages() has ended, the next step is a new negotiate with no
\* back-off sleep before it, and that step is eventually taken
C7_ReconnectAtOnce ==
    /\ [][(pc = "ended" /\ pc' # pc) => (pc' = "negotiate" /\ delay' = FAST_RETRY_SEC)]_vars
    /\ (pc = "ended") ~> (pc = "negotiate")

\* a negotiate after a stream that ended, no sleep since the connection
C7_Witness ==
    pc = "negotiate" /\ epochH # NoHandle /\ lastSlept = NoDelay
    /\ lastKind \in {"ERROR", "CLOSED", "end"}

\* C8: with a negotiation response that has no token, connect() fails at
\* the negotiation step: ws_connect is never called with an absent token
\* and no subscribe frame is sent
C8_AbsentTokenFails == token = "absent" => pc \notin {"ws_connect", "send"}

\* C9: every handle the client opened has had exactly one subscribe frame
\* sent, before any frame is read from it and never again while it streams
C9_SubscribedOnce ==
    /\ \A h \in Handles : hSubs[h] = IF hState[h] = "none" THEN 0 ELSE 1
    /\ Streaming => (cur = epochH /\ hSubs[cur] = 1)

\* a subscribed handle is streaming while an earlier handle exists
C9_Witness == pc = "items" /\ cur = 2 /\ hSubs[1] = 1 /\ hSubs[2] = 1

\* C10: a text frame that is not JSON is skipped: no item is handed off,
\* no exception leaves messages(), and the loop awaits the next frame
C10_MalformedSkipped ==
    lastKind = "malformed" => /\ pc \in {"recv", "cancelled"}
                              /\ pending = <<>>
                              /\ last = NoCall

\* an item of a later frame is handled after a malformed frame on the
\* same connection
C10_Witness == afterBad /\ pc = "apply" /\ last.applied = 1 /\ hState[cur] = "open"

\* C11: a well-formed JSON frame that matches neither the incremental nor
\* the snapshot shape (a JSON scalar, a relevant entry without argument list
\* or without "Messages") is ignored without error: none of its items is
\* handed off and no exception is about to leave messages().
C11_NeitherShapeIgnored ==
    frame.bad => (pending = <<>> /\ endOp # "raise")

\* C12: a frame with a "Messages" value that is neither a list nor a mapping,
\* and otherwise well-shaped, raises nothing, hands off no item of that
\* value, and still hands off every item of its other entries; the loop
\* goes on to the next frame.
C12_UnknownMessagesSkipped ==
    /\ []((frame.unk /\ ~frame.bad) =>
             /\ pc = "items"
             /\ endOp # "raise"
             /\ pending = [p \in 1 .. frame.listed |-> p])
    /\ [][(frame.unk /\ ~frame.bad /\ pending = <<>> /\ pc' # pc) => pc' = "recv"]_vars

C12_Witness ==
    /\ frame.unk
    /\ ~frame.bad
    /\ lastKind = "M"
    /\ Len(pending) = MaxItems

C12_WitnessSnapshot ==
    /\ frame.unk
    /\ lastKind = "R"
    /\ pc = "items"

\* C13: a failure of the transform, of apply() or of publish for one item
\* does not leave _handle_rc: the loop goes on with the remaining items of
\* the frame, and the handle stays as it was, open and active.
C13_ItemFailureIsolated ==
    [][(last' # last /\ (last'.out \in ItemErrors \/ last'.res \in ApplyErrors)) =>
          /\ pc' = "items"
          /\ pending' = Tail(pending)
          /\ cur' = cur
          /\ ws' = ws
          /\ hState' = hState]_vars

C13_Witness ==
    /\ last.res \in ApplyErrors
    /\ pending # <<>>
    /\ pc = "items"
    /\ hState[cur] = "open"
    /\ ws = cur

C20_EveryFrameYielded ==
    [][(pc = "items" /\ pc' = "recv") => endOp = "yield"]_vars

\* C14: close() is idempotent, also when calls overlap at the await inside
\* close(): no call of close() calls the close of a handle whose close was
\* called by close() before, so each handle is closed by close() at most once.
C14_ClosedAtMostOnce ==
    [][CloseCall => (ws = NoHandle \/ ws \notin released)]_vars

\* C15: close() leaves the client without active handle only by dropping the
\* handle it closed: the handle that stops being the active one is closed,
\* never a handle connect() installed while close() was suspended.
C15_DropsOnlyWhatItClosed ==
    [][(ws # NoHandle /\ ws' = NoHandle) => hState'[ws] = "closed"]_vars

\* C16: when close() was called while messages() is running, the handle
\* messages() reads from is closed, so that the loop observes it and ends.
C16_LoopSeesClose ==
    (Streaming /\ closeSeen) => hState[cur] = "closed"

\* C17: a connection attempt cancelled after the handshake and before the
\* subscribe send completed leaves its handle neither open nor installed
\* as the active handle.
C17_CancelledAttemptReleased ==
    (pc = "cancelled" /\ connH # NoHandle) =>
        (hState[connH] # "open" /\ ws # connH)

\* C19: at most one transport connection is open at any time.
C19_OneOpenHandle ==
    Cardinality({h \in Handles : hState[h] = "open"}) <= 1
====
